---- MODULE Spec2Model ----
(***************************************************************************)
(* The array semantics that the notebook PLYMI/Module3/BasicIndexing.ipynb *)
(* demonstrates: a kernel holds named objects; an array is a window        *)
(* (shape and element offsets) onto a data buffer; basic indexing makes a  *)
(* window onto the same buffer, advanced indexing, numpy.copy and          *)
(* arithmetic make a new buffer; view assignment, augmented assignment and *)
(* out= write through a window into its buffer.                            *)
(*                                                                         *)
(* Element values are decimal fixed-point numbers with one decimal: the    *)
(* integer v stands for v / Scale.  Values beyond MaxFinite overflow to    *)
(* the infinities, as floating point does at its own, larger, limit.       *)
(***************************************************************************)
EXTENDS Integers, Sequences, FiniteSets, TLC

VARIABLES
    heap,   \* the data buffers: heap[k] is the sequence of elements of buffer k
    env,    \* the kernel's namespace: name -> object
    made,   \* how each name was bound: [how, from] (from: the source buffer)
    last,   \* the statement executed last
    prev,   \* heap and env before that statement
    steps   \* statements executed since the setup cell

vars == <<heap, env, made, last, prev, steps>>

----------------------------------------------------------------------------
(* Bounds of the exploration. *)

MaxSteps == 2

MaxStmts == 2

MaxInt == 2

\* The number of statements run after the given cell of the exercise on views.
MaxViews == 3

----------------------------------------------------------------------------
(* Element values. *)

Scale == 10

MaxFinite == 30000

PosInf == MaxFinite + 1

NegInf == 0 - (MaxFinite + 1)

NaN == MaxFinite + 2

IsFinite(v) == v >= 0 - MaxFinite /\ v <= MaxFinite

Clamp(v) == IF v > MaxFinite THEN PosInf ELSE IF v < 0 - MaxFinite THEN NegInf ELSE v

Sign(v) == IF v > 0 THEN 1 ELSE IF v < 0 THEN -1 ELSE 0

Abs(v) == IF v < 0 THEN 0 - v ELSE v

\* Truncating division of a by b > 0 (the quotient nearest zero).
TDiv(a, b) == IF a >= 0 THEN a \div b ELSE 0 - ((0 - a) \div b)

\* v + k, k finite.
VAdd(v, k) == IF IsFinite(v) THEN Clamp(v + k) ELSE v

\* v * k for a finite factor k (in fixed point, as v is).
VMul(v, k) ==
    IF v = NaN THEN NaN
    ELSE IF ~IsFinite(v)
         THEN (IF k = 0 THEN NaN ELSE IF Sign(v) * Sign(k) > 0 THEN PosInf ELSE NegInf)
    ELSE Clamp(TDiv(v * k, Scale))

\* v / k for a finite positive divisor k.
VDiv(v, k) == IF IsFinite(v) THEN Clamp(TDiv(v * Scale, k)) ELSE v

VSquare(v) ==
    IF v = NaN THEN NaN
    ELSE IF ~IsFinite(v) THEN PosInf
    ELSE Clamp(TDiv(v * v, Scale))

\* ExpTab[r - ExpLo + 1] = floor(Scale * e^(r / Scale)) for r in ExpLo .. ExpHi.
ExpLo == 0 - 23

ExpHi == ExpLo + 103

ExpTab ==
    << 1, 1, 1, 1, 1, 1, 1, 2, 2, 2, 2, 3, 3, 3, 4, 4, 4, 5, 6, 6, 7,
       8, 9, 10, 11, 12, 13, 14, 16, 18, 20, 22, 24, 27, 30, 33, 36,
       40, 44, 49, 54, 60, 66, 73, 81, 90, 99, 110, 121, 134, 148,
       164, 181, 200, 221, 245, 271, 299, 331, 365, 404, 447, 494,
       545, 603, 666, 736, 814, 900, 994, 1099, 1215, 1342, 1484,
       1640, 1812, 2003, 2214, 2446, 2704, 2988, 3302, 3650, 4034,
       4458, 4927, 5445, 6018, 6651, 7350, 8124, 8978, 9922, 10966,
       12119, 13394, 14802, 16359, 18080, 19981, 22083, 24406, 26972,
       29809 >>

\* numpy.exp of one element.
VExp(v) ==
    IF v = NaN THEN NaN
    ELSE IF v = PosInf THEN PosInf
    ELSE IF v = NegInf THEN 0
    ELSE IF v > ExpHi THEN PosInf
    ELSE IF v < ExpLo THEN 0
    ELSE ExpTab[v - ExpLo + 1]

\* numpy.log of one element: the largest r with e^(r/Scale) <= v/Scale, to the
\* table's precision; log(0) = -inf and the log of a negative number is nan.
VLog(v) ==
    IF v = NaN \/ v < 0 THEN NaN
    ELSE IF v = PosInf THEN PosInf
    ELSE IF v = 0 THEN NegInf
    ELSE LET rs == {r \in ExpLo .. ExpHi : ExpTab[r - ExpLo + 1] <= v}
         IN  CHOOSE r \in rs : \A q \in rs : q <= r

----------------------------------------------------------------------------
(* Objects: a number, or an array, which is a window onto buffer buf: shape
   is its shape and offs lists, in row-major order, the buffer positions of
   its elements. *)

Unbound == [kind |-> "unbound", val |-> 0, buf |-> 0, shape |-> <<>>, offs |-> <<>>]

Num(v) == [kind |-> "num", val |-> v, buf |-> 0, shape |-> <<>>, offs |-> <<>>]

Arr(b, sh, of) == [kind |-> "arr", val |-> 0, buf |-> b, shape |-> sh, offs |-> of]

IsArr(o) == o.kind = "arr"

RECURSIVE Prod(_)
Prod(shape) == IF shape = <<>> THEN 1 ELSE Head(shape) * Prod(Tail(shape))

Iota(n) == [i \in 1 .. n |-> i]

Range(f) == {f[i] : i \in DOMAIN f}

\* The elements an array reads, in row-major order.
Contents(h, o) == [i \in 1 .. Len(o.offs) |-> h[o.buf][o.offs[i]]]

\* numpy.shares_memory: do the two objects have an element of memory in common?
\* A number is no array: it is given a buffer of its own for the comparison.
SharesMemory(o1, o2) ==
    /\ IsArr(o1)
    /\ IsArr(o2)
    /\ o1.buf = o2.buf
    /\ Range(o1.offs) \cap Range(o2.offs) # {}

----------------------------------------------------------------------------
(* Index items.  The optional parts of a slice are sequences: <<>> is None. *)

IntIx(i) == [t |-> "int", i |-> i, start |-> <<>>, stop |-> <<>>, step |-> <<>>]

Slice(a, b, c) == [t |-> "slice", i |-> 0, start |-> a, stop |-> b, step |-> c]

Ellipsis == [t |-> "ellipsis", i |-> 0, start |-> <<>>, stop |-> <<>>, step |-> <<>>]

NewAxis == [t |-> "newaxis", i |-> 0, start |-> <<>>, stop |-> <<>>, step |-> <<>>]

None == <<>>

All == Slice(None, None, None)

\* slice.indices(n): the step, and start and stop brought into range.
SliceStep(s) == IF s.step = None THEN 1 ELSE s.step[1]

SliceBound(b, n, step, dflt) ==
    IF b = None THEN dflt
    ELSE LET v == IF b[1] < 0 THEN b[1] + n ELSE b[1]
         IN  IF v < 0 THEN (IF step < 0 THEN -1 ELSE 0)
             ELSE IF v >= n THEN (IF step < 0 THEN n - 1 ELSE n)
             ELSE v

SliceStart(s, n) ==
    SliceBound(s.start, n, SliceStep(s), IF SliceStep(s) < 0 THEN n - 1 ELSE 0)

SliceStop(s, n) ==
    SliceBound(s.stop, n, SliceStep(s), IF SliceStep(s) < 0 THEN -1 ELSE n)

SliceLen(s, n) ==
    LET st == SliceStep(s)
        lo == SliceStart(s, n)
        hi == SliceStop(s, n)
    IN  IF st > 0 THEN (IF hi > lo THEN (hi - lo - 1) \div st + 1 ELSE 0)
        ELSE (IF hi < lo THEN (lo - hi - 1) \div (0 - st) + 1 ELSE 0)

\* The positions (from 0) along an axis of length n that the slice selects.
SliceIndices(s, n) ==
    [k \in 1 .. SliceLen(s, n) |-> SliceStart(s, n) + (k - 1) * SliceStep(s)]

\* An integer index counted from the end when negative.
NormInt(i, n) == IF i < 0 THEN i + n ELSE i

\* The items that consume an axis of the array.
Consumes(it) == it.t = "int" \/ it.t = "slice"

NumConsumed(idx) == Cardinality({k \in DOMAIN idx : Consumes(idx[k])})

NumEllipsis(idx) == Cardinality({k \in DOMAIN idx : idx[k].t = "ellipsis"})

Fill(n) == [k \in 1 .. n |-> All]

\* The index with its Ellipsis replaced by the slices it stands for, or with
\* the trailing slices filled in when it has none.
Expand(idx, ndim) ==
    LET missing == ndim - NumConsumed(idx)
    IN  IF NumEllipsis(idx) = 0 THEN idx \o Fill(missing)
        ELSE LET e == CHOOSE k \in DOMAIN idx : idx[k].t = "ellipsis"
             IN  SubSeq(idx, 1, e - 1) \o Fill(missing) \o SubSeq(idx, e + 1, Len(idx))

RECURSIVE ItemsOK(_, _)
ItemsOK(shape, items) ==
    IF items = <<>> THEN TRUE
    ELSE LET it == Head(items)
         IN  CASE it.t = "newaxis" -> ItemsOK(shape, Tail(items))
               [] it.t = "int" ->
                    /\ NormInt(it.i, shape[1]) >= 0
                    /\ NormInt(it.i, shape[1]) < shape[1]
                    /\ ItemsOK(Tail(shape), Tail(items))
               [] OTHER -> SliceStep(it) # 0 /\ ItemsOK(Tail(shape), Tail(items))

\* Does x[idx] succeed on an array of this shape (no IndexError)?
IndexOK(shape, idx) ==
    /\ NumEllipsis(idx) <= 1
    /\ NumConsumed(idx) <= Len(shape)
    /\ ItemsOK(shape, Expand(idx, Len(shape)))

RECURSIVE ResShape(_, _)
ResShape(shape, items) ==
    IF items = <<>> THEN shape
    ELSE LET it == Head(items)
         IN  CASE it.t = "newaxis" -> <<1>> \o ResShape(shape, Tail(items))
               [] it.t = "int" -> ResShape(Tail(shape), Tail(items))
               [] OTHER -> <<SliceLen(it, shape[1])>> \o ResShape(Tail(shape), Tail(items))

RECURSIVE ResOffs(_, _, _)
RECURSIVE RowsOffs(_, _, _, _)
\* The offsets of the blocks rows[1], rows[2], ... of the leading axis, each
\* indexed by the remaining items.
RowsOffs(rows, shape, offs, items) ==
    IF rows = <<>> THEN <<>>
    ELSE LET B == Prod(Tail(shape))
             r == Head(rows)
         IN  ResOffs(Tail(shape), SubSeq(offs, r * B + 1, (r + 1) * B), items)
                 \o RowsOffs(Tail(rows), shape, offs, items)

ResOffs(shape, offs, items) ==
    IF items = <<>> THEN offs
    ELSE LET it == Head(items)
         IN  CASE it.t = "newaxis" -> ResOffs(shape, offs, Tail(items))
               [] it.t = "int" ->
                    RowsOffs(<<NormInt(it.i, shape[1])>>, shape, offs, Tail(items))
               [] OTHER ->
                    RowsOffs(SliceIndices(it, shape[1]), shape, offs, Tail(items))

\* Indexing that never returns a number: a single element comes back as a
\* window of no dimensions.
SelectsNoElement(shape, idx) == FALSE

\* One integer for every dimension selects a single element, a number.
SelectsElement(shape, idx) ==
    Len(idx) = Len(shape) /\ \A k \in DOMAIN idx : idx[k].t = "int"

\* A new buffer holding vals, and the array of that shape that owns it.
Fresh(h, shape, vals) ==
    [obj |-> Arr(Len(h) + 1, shape, Iota(Len(vals))), heap |-> Append(h, vals)]

\* Basic indexing that copies what it selects, as advanced indexing does.
BasicIndexCopies(h, x, idx) ==
    LET items == Expand(idx, Len(x.shape))
        offs == ResOffs(x.shape, x.offs, items)
    IN  IF SelectsElement(x.shape, idx)
        THEN [obj |-> Num(h[x.buf][offs[1]]), heap |-> h]
        ELSE Fresh(h, ResShape(x.shape, items), [i \in DOMAIN offs |-> h[x.buf][offs[i]]])

\* x[idx] for a basic index: a number, or a view of x's buffer; the heap is
\* left as it is.
BasicIndex(h, x, idx) ==
    LET items == Expand(idx, Len(x.shape))
        offs == ResOffs(x.shape, x.offs, items)
    IN  IF SelectsElement(x.shape, idx)
        THEN [obj |-> Num(h[x.buf][offs[1]]), heap |-> h]
        ELSE [obj |-> Arr(x.buf, ResShape(x.shape, items), offs), heap |-> h]

----------------------------------------------------------------------------
(* Advanced indices: a list (or integer array) of positions along axis 0,
   x[[1, -1]], or the boolean array of a comparison, x[x < k]. *)

ListIx(l) == [t |-> "list", ixs |-> l, k |-> 0]

LessIx(k) == [t |-> "less", ixs |-> <<>>, k |-> k]

AdvOK(h, x, adv) ==
    IF adv.t = "list"
    THEN /\ Len(x.shape) >= 1
         /\ \A j \in DOMAIN adv.ixs :
                /\ NormInt(adv.ixs[j], x.shape[1]) >= 0
                /\ NormInt(adv.ixs[j], x.shape[1]) < x.shape[1]
    ELSE TRUE

\* The buffer positions x[adv] reads, in the order of the result.
AdvOffs(h, x, adv) ==
    IF adv.t = "list"
    THEN RowsOffs([j \in DOMAIN adv.ixs |-> NormInt(adv.ixs[j], x.shape[1])],
                  x.shape, x.offs, <<>>)
    ELSE LET Sel(o) == h[x.buf][o] < adv.k
         IN  SelectSeq(x.offs, Sel)

AdvShape(h, x, adv) ==
    IF adv.t = "list" THEN <<Len(adv.ixs)>> \o Tail(x.shape)
    ELSE <<Len(AdvOffs(h, x, adv))>>

\* Advanced indexing that returns a window onto x's buffer, as basic
\* indexing does.
AdvIndexIsView(h, x, adv) ==
    [obj |-> Arr(x.buf, AdvShape(h, x, adv), AdvOffs(h, x, adv)), heap |-> h]

\* x[adv]: a copy of the accessed data, in a buffer of its own.
AdvIndex(h, x, adv) ==
    LET offs == AdvOffs(h, x, adv)
    IN  Fresh(h, AdvShape(h, x, adv), [i \in DOMAIN offs |-> h[x.buf][offs[i]]])

----------------------------------------------------------------------------
(* Elementwise operations: op.f names the function, op.k its constant. *)

Op(f, k) == [f |-> f, k |-> k]

Apply(op, v) ==
    CASE op.f = "add" -> VAdd(v, op.k)
      [] op.f = "mul" -> VMul(v, op.k)
      [] op.f = "div" -> VDiv(v, op.k)
      [] op.f = "square" -> VSquare(v)
      [] op.f = "exp" -> VExp(v)
      [] OTHER -> VLog(v)

Map(op, vals) == [i \in DOMAIN vals |-> Apply(op, vals[i])]

\* The heap after vals are stored through the window o: element i of o's
\* buffer positions receives vals[i].
Store(h, o, vals) ==
    [h EXCEPT ![o.buf] =
        [p \in DOMAIN h[o.buf] |->
            IF \E i \in DOMAIN o.offs : o.offs[i] = p
            THEN vals[CHOOSE i \in DOMAIN o.offs : o.offs[i] = p]
            ELSE h[o.buf][p]]]

\* An expression that updates its operand and returns it.
ComputeInPlace(h, x, op) ==
    IF IsArr(x) THEN [obj |-> x, heap |-> Store(h, x, Map(op, Contents(h, x)))]
    ELSE [obj |-> Num(Apply(op, x.val)), heap |-> h]

\* The value of an expression f(x) or x (+, *, /) k: a new number, or a new
\* array in a buffer of its own.
Compute(h, x, op) ==
    IF IsArr(x) THEN Fresh(h, x.shape, Map(op, Contents(h, x)))
    ELSE [obj |-> Num(Apply(op, x.val)), heap |-> h]

\* numpy.copy that returns its argument.
CopyIsSame(h, x) == [obj |-> x, heap |-> h]

\* numpy.copy(x)
Copy(h, x) == Fresh(h, x.shape, Contents(h, x))

\* The window that x[idx] = ... writes through: the view x[idx], or the one
\* element that an all-integer index selects.
Target(h, x, idx) ==
    LET items == Expand(idx, Len(x.shape))
    IN  Arr(x.buf, ResShape(x.shape, items), ResOffs(x.shape, x.offs, items))

\* A value broadcast to n elements: a number is repeated.
Broadcast(h, v, n) == IF IsArr(v) THEN Contents(h, v) ELSE [i \in 1 .. n |-> v.val]

\* Can v be assigned to a window of this shape?
Fits(v, shape) == IF IsArr(v) THEN v.shape = shape ELSE v.kind = "num"

----------------------------------------------------------------------------
(* The kernel: statements of the notebook's cells, each one action. *)

Names == {"a", "b", "c", "x", "y", "a1", "a2", "a3", "a4", "a5", "a6", "a7", "a8"}

NoStmt == [op |-> "setup", dst |-> "", src |-> "", idx |-> <<>>, arg |-> <<>>]

Stmt(op, dst, src, idx, arg) ==
    [op |-> op, dst |-> dst, src |-> src, idx |-> idx, arg |-> arg]

How(how, from) == [how |-> how, from |-> from]

\* The statement is recorded, with the state it ran in.
Ran(st) ==
    /\ last' = st
    /\ prev' = [heap |-> heap, env |-> env]
    /\ steps' = steps + 1

\* dst = <value>: the name is bound to the value's object.
Bind(dst, res, how) ==
    /\ heap' = res.heap
    /\ env' = [env EXCEPT ![dst] = res.obj]
    /\ made' = [made EXCEPT ![dst] = how]

\* np.array that puts the values into the newest buffer there is.
ArrayLitReuses(h, shape, vals) ==
    IF h = <<>> THEN Fresh(h, shape, vals)
    ELSE [obj |-> Arr(Len(h), shape, Iota(Len(vals))),
          heap |-> [h EXCEPT ![Len(h)] = vals]]

\* np.array(vals): a new array, in a buffer of its own.
ArrayLit(h, shape, vals) == Fresh(h, shape, vals)

\* a = np.array(vals)
NewArray(dst, shape, vals) ==
    /\ Bind(dst, ArrayLit(heap, shape, vals), How("array", 0))
    /\ Ran(Stmt("array", dst, "", <<>>, <<>>))

\* dst = src[idx], idx a basic index
GetItem(dst, src, idx) ==
    /\ IsArr(env[src])
    /\ IndexOK(env[src].shape, idx)
    /\ Bind(dst, BasicIndex(heap, env[src], idx), How("basic", env[src].buf))
    /\ Ran(Stmt("getitem", dst, src, idx, <<>>))

\* dst = src[adv], adv an advanced index
AdvGetItem(dst, src, adv) ==
    /\ IsArr(env[src])
    /\ AdvOK(heap, env[src], adv)
    /\ Bind(dst, AdvIndex(heap, env[src], adv), How("advanced", env[src].buf))
    /\ Ran(Stmt("advgetitem", dst, src, <<>>, adv))

\* dst = np.copy(src)
CopyStmt(dst, src) ==
    /\ IsArr(env[src])
    /\ Bind(dst, Copy(heap, env[src]), How("copy", env[src].buf))
    /\ Ran(Stmt("copy", dst, src, <<>>, <<>>))

\* dst = src + k, dst = src * k, dst = np.square(src), ...: the value of the
\* expression is computed, then the name is bound to it.
BindExpr(dst, src, op) ==
    /\ env[src].kind # "unbound"
    /\ Bind(dst, Compute(heap, env[src], op), How("expr", env[src].buf))
    /\ Ran(Stmt("expr", dst, src, <<>>, op))

\* The right-hand side of an assignment: a number, a name, or an expression
\* on a name; an expression's array lives in a temporary buffer.
NumE(v) == [form |-> "num", num |-> v, name |-> "", op |-> <<>>]

NameE(n) == [form |-> "name", num |-> 0, name |-> n, op |-> <<>>]

OpE(n, op) == [form |-> "op", num |-> 0, name |-> n, op |-> op]

EvalOK(e) == IF e.form = "num" THEN TRUE ELSE env[e.name].kind # "unbound"

Eval(h, e) ==
    CASE e.form = "num" -> [obj |-> Num(e.num), heap |-> h]
      [] e.form = "name" -> [obj |-> env[e.name], heap |-> h]
      [] OTHER -> Compute(h, env[e.name], e.op)

\* An assignment that stores the value in a buffer of its own and leaves the
\* window's data alone.
AssignElsewhere(h, t, v, hv) == Append(h, Broadcast(hv, v, Len(t.offs)))

\* The heap after the value v (in heap hv) is assigned to the window t.
Assign(h, t, v, hv) == Store(h, t, Broadcast(hv, v, Len(t.offs)))

\* dst[idx] = e: the value is stored through the view dst[idx].
SetItem(dst, idx, e) ==
    /\ IsArr(env[dst])
    /\ IndexOK(env[dst].shape, idx)
    /\ EvalOK(e)
    /\ LET t == Target(heap, env[dst], idx)
           r == Eval(heap, e)
       IN  /\ Fits(r.obj, t.shape)
           /\ heap' = Assign(heap, t, r.obj, r.heap)
    /\ UNCHANGED <<env, made>>
    /\ Ran(Stmt("setitem", dst, "", idx, e))

\* An augmented assignment that leaves its result in a new buffer.
InPlaceElsewhere(h, o, op) == Append(h, Map(op, Contents(h, o)))

\* An augmented assignment that updates the whole buffer, not the window.
InPlaceWholeBuffer(h, o, op) == [h EXCEPT ![o.buf] = Map(op, h[o.buf])]

\* The heap after n op= k, for the object o that the name n refers to.
InPlace(h, o, op) == Store(h, o, Map(op, Contents(h, o)))

\* dst += k, dst *= k, dst /= k: an array is updated in place; a number is
\* immutable, and the name is bound to the new number.
AugAssign(dst, op) ==
    /\ env[dst].kind # "unbound"
    /\ IF IsArr(env[dst])
       THEN /\ heap' = InPlace(heap, env[dst], op)
            /\ UNCHANGED <<env, made>>
       ELSE Bind(dst, Compute(heap, env[dst], op), How("expr", 0))
    /\ Ran(Stmt("augassign", dst, dst, <<>>, op))

\* A function that ignores out= and leaves its result in a new buffer.
OutIgnored(h, op, s, t) == Append(h, Map(op, Contents(h, s)))

\* The heap after np.f(s, out=t): the result is stored through t.
OutResult(h, op, s, t) == Store(h, t, Map(op, Contents(h, s)))

\* np.f(src[sidx], out=out[oidx]); an empty index stands for the name alone.
UfuncOut(op, src, sidx, out, oidx) ==
    /\ IsArr(env[src])
    /\ IsArr(env[out])
    /\ IndexOK(env[src].shape, sidx)
    /\ IndexOK(env[out].shape, oidx)
    /\ LET s == Target(heap, env[src], sidx)
           t == Target(heap, env[out], oidx)
       IN  /\ s.shape = t.shape
           /\ heap' = OutResult(heap, op, s, t)
    /\ UNCHANGED <<env, made>>
    /\ Ran(Stmt("ufuncout", out, src, oidx, op))

\* def f(z): z op= k, called as f(arg): the parameter z is bound to the
\* caller's object, updated, and dropped at the return.
CallF(arg, op) ==
    /\ env[arg].kind # "unbound"
    /\ LET z == env[arg]
       IN  heap' = IF IsArr(z) THEN InPlace(heap, z, op) ELSE heap
    /\ UNCHANGED <<env, made>>
    /\ Ran(Stmt("call", arg, arg, <<>>, op))

----------------------------------------------------------------------------
(* The notebook's setup cells, as kernel states. *)

State(h, e, m) == [heap |-> h, env |-> e, made |-> m]

Empty == State(<<>>, [n \in Names |-> Unbound], [n \in Names |-> How("none", 0)])

BindIn(s, dst, res, how) ==
    State(res.heap, [s.env EXCEPT ![dst] = res.obj], [s.made EXCEPT ![dst] = how])

Times(vals) == [i \in DOMAIN vals |-> vals[i] * Scale]

Grid == Times(<<0, 1, 2, 3, 4, 5, 6, 7, 8, 9, 10, 11>>)

\* a = np.array([0, 1, 2, 3, 4]); b = a[:]
SetupAssign ==
    LET s == BindIn(Empty, "a", ArrayLit(<<>>, <<5>>, Times(<<0, 1, 2, 3, 4>>)),
                    How("array", 0))
    IN  BindIn(s, "b", BasicIndex(s.heap, s.env["a"], <<All>>), How("basic", 1))

\* a = np.array([[0, 1, 2, 3], [4, 5, 6, 7], [8, 9, 10, 11]]); b = a[0]; c = a[0]
SetupAugmented ==
    LET s == BindIn(Empty, "a", ArrayLit(<<>>, <<3, 4>>, Grid), How("array", 0))
        t == BindIn(s, "b", BasicIndex(s.heap, s.env["a"], <<IntIx(0)>>), How("basic", 1))
    IN  BindIn(t, "c", BasicIndex(t.heap, t.env["a"], <<IntIx(0)>>), How("basic", 1))

\* x = np.array([[-5, 2, 0, -7], [-1, 9, 3, 8], [-3, -3, 4, 6]]); x[x < 0],
\* with x named a and the result held in b
SetupIntro ==
    LET s == BindIn(Empty, "a",
                    ArrayLit(<<>>, <<3, 4>>, Times(<<-5, 2, 0, -7, -1, 9, 3, 8, -3, -3, 4, 6>>)),
                    How("array", 0))
    IN  BindIn(s, "b", AdvIndex(s.heap, s.env["a"], LessIx(0)), How("advanced", 1))

\* z = np.array(...); subarray = z[:, 0]; new_subarray = np.copy(subarray),
\* with the names a, b, c
SetupCopy ==
    LET s == BindIn(Empty, "a", ArrayLit(<<>>, <<3, 4>>, Grid), How("array", 0))
        t == BindIn(s, "b", BasicIndex(s.heap, s.env["a"], <<All, IntIx(0)>>),
                    How("basic", 1))
    IN  BindIn(t, "c", Copy(t.heap, t.env["b"]), How("copy", 1))

Setups == {SetupAssign, SetupAugmented, SetupIntro, SetupCopy}

Start(s) ==
    /\ heap = s.heap
    /\ env = s.env
    /\ made = s.made
    /\ last = NoStmt
    /\ prev = [heap |-> s.heap, env |-> s.env]
    /\ steps = 0

Init == \E s \in Setups : Start(s)

----------------------------------------------------------------------------
(* The statements explored from the setup cells. *)

Vars == {"a", "b", "c"}

\* The names a statement of the exploration binds a derived object to.
Derived == {"b", "c"}

\* x[:], x[0], x[0, 0] and the empty x[0:0]
CoreIndex ==
    {<<All>>, <<IntIx(0)>>, <<IntIx(0), IntIx(0)>>, <<Slice(<<0>>, <<0>>, None)>>}

\* x[[1, -1]], x[x < 0]
CoreAdv == {ListIx(<<1, -1>>), LessIx(0)}

\* * -1, np.exp
CoreOps == {Op("mul", -1 * Scale), Op("exp", 0)}

DoNewArray ==
    /\ steps < MaxSteps
    /\ \E dst \in Vars :
          NewArray(dst, <<5>>, Times(<<0, -1, -2, -3, -4>>))

DoGetItem ==
    /\ steps < MaxSteps
    /\ \E dst \in Derived, src \in Vars, idx \in CoreIndex : GetItem(dst, src, idx)

DoAdvGetItem ==
    /\ steps < MaxSteps
    /\ \E dst \in Derived, src \in Vars, adv \in CoreAdv : AdvGetItem(dst, src, adv)

DoCopy ==
    /\ steps < MaxSteps
    /\ \E dst \in Derived, src \in Vars : CopyStmt(dst, src)

DoBindExpr ==
    /\ steps < MaxSteps
    /\ \E src \in Vars, op \in CoreOps :
          \E dst \in {src, "c"} : BindExpr(dst, src, op)

DoSetItem ==
    /\ steps < MaxSteps
    /\ \E dst \in Vars, idx \in {<<All>>, <<IntIx(0)>>} :
          \E e \in {NumE(0), OpE(dst, Op("mul", -1 * Scale))} : SetItem(dst, idx, e)

DoAugAssign ==
    /\ steps < MaxSteps
    /\ \E dst \in Vars : AugAssign(dst, Op("mul", -2 * Scale))

DoUfuncOut ==
    /\ steps < MaxSteps
    /\ \E src \in Vars, out \in Vars : UfuncOut(Op("exp", 0), src, <<>>, out, <<>>)

Next ==
    \/ DoNewArray
    \/ DoGetItem
    \/ DoAdvGetItem
    \/ DoCopy
    \/ DoBindExpr
    \/ DoSetItem
    \/ DoAugAssign
    \/ DoUfuncOut

Spec == Init /\ [][Next]_vars

----------------------------------------------------------------------------
(* Indexing alone: one array, one index taken from a wide set, and then
   updates in place of the array and of what the index returned. *)

\* a = np.array(...) of one, two and three dimensions
SetupIndex1 ==
    BindIn(Empty, "a", ArrayLit(<<>>, <<5>>, Times(<<0, 1, 2, 3, 4>>)), How("array", 0))

SetupIndex2 ==
    BindIn(Empty, "a", ArrayLit(<<>>, <<3, 4>>, Grid), How("array", 0))

SetupIndex3 ==
    BindIn(Empty, "a", ArrayLit(<<>>, <<3, 2, 2>>, Grid), How("array", 0))

Opt(S) == {None} \cup {<<v>> : v \in S}

Ints == (0 - MaxInt) .. MaxInt

WideItems ==
    {IntIx(i) : i \in Ints}
        \cup {Slice(a, b, c) : a \in Opt(Ints), b \in Opt(Ints), c \in Opt({-1, 2})}
        \cup {Ellipsis, NewAxis}

FewItems ==
    {IntIx(0), IntIx(-1), All, Ellipsis, NewAxis, Slice(<<1>>, None, None),
     Slice(None, None, <<2>>)}

Tuples(S, n) == [1 .. n -> S]

WideIndex ==
    Tuples(WideItems, 1) \cup Tuples(WideItems, 2)
        \cup Tuples(FewItems, 3) \cup Tuples(FewItems, 4)

IxGetItem ==
    /\ steps = 0
    /\ \E idx \in WideIndex : GetItem("b", "a", idx)

IxAugAssign ==
    /\ steps = 1
    /\ steps < MaxSteps
    /\ \E dst \in {"a", "b"} : AugAssign(dst, Op("add", 2 * Scale))

InitIndex == \E s \in {SetupIndex1, SetupIndex2, SetupIndex3} : Start(s)

NextIndex == IxGetItem \/ IxAugAssign

SpecIndex == InitIndex /\ [][NextIndex]_vars

----------------------------------------------------------------------------
(* The exercise "Augmenting Array Data In-Place": the given cell, and its
   ten statements, each a cell that may be run after it. *)

\* x = np.array([[0., 1., 2., 3.], [4., 5., 6., 7.], [8., 9., 10., 11.]])
\* y = x[0, :]
Given ==
    LET s == BindIn(Empty, "x", ArrayLit(<<>>, <<3, 4>>, Grid), How("array", 0))
    IN  BindIn(s, "y", BasicIndex(s.heap, s.env["x"], <<IntIx(0), All>>), How("basic", 1))

\* 1. x += 3
Ex1 == steps < MaxStmts /\ AugAssign("x", Op("add", 3 * Scale))

\* 2. y *= 2.4
Ex2 == steps < MaxStmts /\ AugAssign("y", Op("mul", 24))

\* 3. x = x + 3
Ex3 == steps < MaxStmts /\ BindExpr("x", "x", Op("add", 3 * Scale))

\* 4. y = np.copy(y); y += 3
Ex4 ==
    /\ steps < MaxStmts
    /\ IsArr(env["y"])
    /\ LET r == Copy(heap, env["y"])
       IN  /\ heap' = InPlace(r.heap, r.obj, Op("add", 3 * Scale))
           /\ env' = [env EXCEPT !["y"] = r.obj]
           /\ made' = [made EXCEPT !["y"] = How("copy", env["y"].buf)]
    /\ Ran(Stmt("copy;augassign", "y", "y", <<>>, Op("add", 3 * Scale)))

\* 5. np.log(x[1:3], out=x[1:3])
Ex5 ==
    /\ steps < MaxStmts
    /\ UfuncOut(Op("log", 0), "x", <<Slice(<<1>>, <<3>>, None)>>,
                "x", <<Slice(<<1>>, <<3>>, None)>>)

\* 6. y[:] = y + 2
Ex6 == steps < MaxStmts /\ SetItem("y", <<All>>, OpE("y", Op("add", 2 * Scale)))

\* 7. x = np.square(x)
Ex7 == steps < MaxStmts /\ BindExpr("x", "x", Op("square", 0))

\* 8. x[:] = 0
Ex8 == steps < MaxStmts /\ SetItem("x", <<All>>, NumE(0))

\* 9. def f(z): z /= 3, and f(y)
Ex9 == steps < MaxStmts /\ CallF("y", Op("div", 3 * Scale))

\* 10. np.square(y, out=y)
Ex10 == steps < MaxStmts /\ UfuncOut(Op("square", 0), "y", <<>>, "y", <<>>)

InitEx == Start(Given)

NextEx == Ex1 \/ Ex2 \/ Ex3 \/ Ex4 \/ Ex5 \/ Ex6 \/ Ex7 \/ Ex8 \/ Ex9 \/ Ex10

SpecEx == InitEx /\ [][NextEx]_vars

----------------------------------------------------------------------------
(* The exercise "Views": the given cell, its eight statements a1 .. a8, each
   a cell that may be run once after it, and an update in place of x or of
   one of the created arrays, by which shared data shows. *)

\* x = np.array([[0, 1, 2, 3], [4, 5, 6, 7], [8, 9, 10, 11]])
GivenViews == BindIn(Empty, "x", ArrayLit(<<>>, <<3, 4>>, Grid), How("array", 0))

\* dst = src: the name is bound to the very object src refers to.
Alias(dst, src) ==
    /\ env[src].kind # "unbound"
    /\ Bind(dst, [obj |-> env[src], heap |-> heap], How("alias", env[src].buf))
    /\ Ran(Stmt("alias", dst, src, <<>>, <<>>))

\* The number of elements one step along axis k of the shape spans.
Inner(shape, k) == Prod(SubSeq(shape, k + 1, Len(shape)))

\* The strides, in buffer positions, that a window of this shape onto the
\* positions offs must have: one step along axis k moves by Strides[k].
Strides(offs, shape) ==
    [k \in DOMAIN shape |->
        IF shape[k] > 1 THEN offs[1 + Inner(shape, k)] - offs[1] ELSE 0]

\* The buffer position of the element of row-major rank i (from 0) in a
\* window of this shape that starts at offs[1] and has those strides.
StridedPos(offs, shape, i) ==
    LET st == Strides(offs, shape)
        RECURSIVE Sum(_)
        Sum(k) ==
            IF k = 0 THEN 0
            ELSE ((i \div Inner(shape, k)) % shape[k]) * st[k] + Sum(k - 1)
    IN  offs[1] + Sum(Len(shape))

\* Can the positions offs be seen through a strided window of this shape?
Viewable(offs, shape) ==
    \A i \in 0 .. (Len(offs) - 1) : offs[i + 1] = StridedPos(offs, shape, i)

\* A reshape that always copies the data into a new buffer.
ReshapeCopies(h, x, shape) == Fresh(h, shape, Contents(h, x))

\* x.reshape(shape): a view of x's data with the new shape where strides for
\* it exist, and a copy of the data otherwise.
Reshape(h, x, shape) ==
    IF Viewable(x.offs, shape)
    THEN [obj |-> Arr(x.buf, shape, x.offs), heap |-> h]
    ELSE Fresh(h, shape, Contents(h, x))

\* dst = src.reshape(shape), for an array with as many elements as the shape
ReshapeStmt(dst, src, shape) ==
    /\ IsArr(env[src])
    /\ env[src].offs # <<>>
    /\ Prod(shape) = Len(env[src].offs)
    /\ Bind(dst, Reshape(heap, env[src], shape), How("reshape", env[src].buf))
    /\ Ran(Stmt("reshape", dst, src, <<>>, shape))

\* x + y for two arrays of one shape: a new array in a buffer of its own.
AddArrays(h, x, y) ==
    LET cx == Contents(h, x)
        cy == Contents(h, y)
    IN  Fresh(h, x.shape, [i \in DOMAIN cx |-> VAdd(cx[i], cy[i])])

\* A cell of the exercise runs once, and MaxViews statements run in all.
MayRun(dst) == steps < MaxViews /\ env[dst].kind = "unbound"

\* a1 = x
Vw1 == MayRun("a1") /\ Alias("a1", "x")

\* a2 = x[0, 0]
Vw2 == MayRun("a2") /\ GetItem("a2", "x", <<IntIx(0), IntIx(0)>>)

\* a3 = x[:, 0]
Vw3 == MayRun("a3") /\ GetItem("a3", "x", <<All, IntIx(0)>>)

\* a4 = x[:, 0] + np.array([-1, -2, -3])
Vw4 ==
    /\ MayRun("a4")
    /\ LET l == BasicIndex(heap, env["x"], <<All, IntIx(0)>>)
           r == ArrayLit(l.heap, <<3>>, Times(<<-1, -2, -3>>))
       IN  Bind("a4", AddArrays(r.heap, l.obj, r.obj), How("expr", env["x"].buf))
    /\ Ran(Stmt("expr", "a4", "x", <<All, IntIx(0)>>, Times(<<-1, -2, -3>>)))

\* a5 = np.copy(x[:, 0])
Vw5 ==
    /\ MayRun("a5")
    /\ LET l == BasicIndex(heap, env["x"], <<All, IntIx(0)>>)
       IN  Bind("a5", Copy(l.heap, l.obj), How("copy", env["x"].buf))
    /\ Ran(Stmt("copy", "a5", "x", <<All, IntIx(0)>>, <<>>))

\* a6 = x[np.newaxis]
Vw6 == MayRun("a6") /\ GetItem("a6", "x", <<NewAxis>>)

\* a7 = x.reshape(2, 3, 2)
Vw7 == MayRun("a7") /\ ReshapeStmt("a7", "x", <<2, 3, 2>>)

\* a8 = 2 + x
Vw8 == MayRun("a8") /\ BindExpr("a8", "x", Op("add", 2 * Scale))

\* The created variables that are arrays, and x.
ViewArrays == {"x", "a1", "a3", "a4", "a5", "a6", "a7", "a8"}

\* n += 3, for x or one of the arrays created from it
VwAugAssign ==
    /\ steps < MaxViews
    /\ \E n \in ViewArrays : IsArr(env[n]) /\ AugAssign(n, Op("add", 3 * Scale))

InitViews == Start(GivenViews)

NextViews == Vw1 \/ Vw2 \/ Vw3 \/ Vw4 \/ Vw5 \/ Vw6 \/ Vw7 \/ Vw8 \/ VwAugAssign

SpecViews == InitViews /\ [][NextViews]_vars

----------------------------------------------------------------------------
(* What the statement executed last did, for the properties below. *)

\* The object the last statement bound its name to, and the object it read.
Result == env[last.dst]

Operand == prev.env[last.src]

\* The heap differs from the heap before the last statement in this only:
\* element i of the window o now holds vals[i].
WroteThrough(o, vals) ==
    /\ Len(heap) = Len(prev.heap)
    /\ \A k \in DOMAIN heap : k # o.buf => heap[k] = prev.heap[k]
    /\ Len(heap[o.buf]) = Len(prev.heap[o.buf])
    /\ \A i \in DOMAIN o.offs : heap[o.buf][o.offs[i]] = vals[i]
    /\ \A p \in DOMAIN heap[o.buf] :
          p \notin Range(o.offs) => heap[o.buf][p] = prev.heap[o.buf][p]

\* Every buffer that existed before the last statement is as it was.
OldDataKept ==
    /\ Len(heap) >= Len(prev.heap)
    /\ \A k \in DOMAIN prev.heap : heap[k] = prev.heap[k]

----------------------------------------------------------------------------
(* C1 (as stated): whenever a basic index x[index] selects an array, the
   result shares memory with x (numpy.shares_memory is true) and nothing is
   copied. *)
C1_BasicIndexSharesMemory ==
    (last.op = "getitem" /\ IsArr(Result)) =>
        /\ SharesMemory(Result, Operand)
        /\ heap = prev.heap

(* C1 (amended): whenever a basic index x[index] selects an array, the result
   is a window onto x's own buffer, made of positions of x, and no buffer is
   created or changed; it shares memory with x exactly when it selects at
   least one element. *)
C1_BasicIndexIsView ==
    (last.op = "getitem" /\ IsArr(Result)) =>
        /\ Result.buf = Operand.buf
        /\ Range(Result.offs) \subseteq Range(Operand.offs)
        /\ Len(Result.offs) = Prod(Result.shape)
        /\ heap = prev.heap
        /\ SharesMemory(Result, Operand) <=> Result.offs # <<>>

\* subarray = z[:, 0] on a 3x4 array: column 0, in the buffer of z.
C1_Witness ==
    /\ last.op = "getitem"
    /\ last.idx = <<All, IntIx(0)>>
    /\ prev.env["a"].shape = <<3, 4>>
    /\ env["b"].offs = <<1, 5, 9>>
    /\ SharesMemory(env["b"], env["a"])

----------------------------------------------------------------------------
\* The last statement wrote into an array's buffer.
WroteInPlace ==
    /\ last.op \in {"setitem", "augassign", "ufuncout", "call"}
    /\ IsArr(prev.env[last.dst])

(* C2: advanced indexing (x[[1, -1]], x[x < 0]) returns a copy: the result
   is in a buffer that did not exist before and that no other name refers to,
   it holds the elements selected, and x's data is untouched; afterwards a
   write in place to x's buffer leaves what the result reads unchanged, and a
   write in place to the result's buffer leaves x's buffer unchanged. *)
C2_AdvancedIndexCopies ==
    /\ last.op = "advgetitem" =>
          /\ Result.buf = Len(prev.heap) + 1
          /\ OldDataKept
          /\ Contents(heap, Result)
                = [i \in DOMAIN AdvOffs(prev.heap, Operand, last.arg) |->
                      prev.heap[Operand.buf][AdvOffs(prev.heap, Operand, last.arg)[i]]]
          /\ \A n \in Names \ {last.dst} : ~SharesMemory(Result, env[n])
          /\ ~SharesMemory(Result, Operand)
    /\ WroteInPlace =>
          \A r \in Names :
              (made[r].how = "advanced" /\ IsArr(env[r])) =>
                  /\ env[last.dst].buf = made[r].from =>
                        Contents(heap, env[r]) = Contents(prev.heap, env[r])
                  /\ env[last.dst].buf = env[r].buf =>
                        heap[made[r].from] = prev.heap[made[r].from]

\* b = a[a < 0] was taken, then a was updated in place: b still reads the
\* negative elements that a had.
C2_Witness ==
    /\ made["b"] = How("advanced", 1)
    /\ last.op = "augassign"
    /\ last.dst = "a"
    /\ env["a"].buf = 1
    /\ heap[1] # prev.heap[1]
    /\ Contents(heap, env["b"]) = Times(<<-5, -7, -1, -3, -3>>)

(* C3: a[:] = v, with b = a[:] taken before, replaces a's data in place:
   a and b read the values v afterwards, no name is bound to anything else
   (a is on the same buffer), only a's elements have changed, and a and b
   share memory as before. *)
C3_ViewAssignmentInPlace ==
    (last.op = "setitem" /\ last.idx = <<All>>) =>
        LET a == env[last.dst]
            r == Eval(prev.heap, last.arg)
            v == Broadcast(r.heap, r.obj, Len(a.offs))
        IN  /\ env = prev.env
            /\ WroteThrough(a, v)
            /\ Contents(heap, a) = v
            /\ \A n \in Names :
                  (IsArr(env[n]) /\ env[n].buf = a.buf /\ env[n].offs = a.offs) =>
                      /\ Contents(heap, env[n]) = v
                      /\ SharesMemory(prev.env[last.dst], prev.env[n])
                            => SharesMemory(a, env[n])

\* a = np.array([0, 1, 2, 3, 4]); b = a[:]; a[:] = a * -1
C3_Witness ==
    /\ last.op = "setitem"
    /\ last.dst = "a"
    /\ last.idx = <<All>>
    /\ made["b"] = How("basic", env["a"].buf)
    /\ prev.heap[1] = Times(<<0, 1, 2, 3, 4>>)
    /\ Contents(heap, env["a"]) = Times(<<0, -1, -2, -3, -4>>)
    /\ Contents(heap, env["b"]) = Times(<<0, -1, -2, -3, -4>>)
    /\ SharesMemory(env["a"], env["b"])

(* C4: c *= k on an array c updates the data in place: no name is bound to
   anything else (c is the same array, and shares memory with a as before),
   the elements of c are the old ones times k, and every array that is a
   view of that data reads the new value where it overlaps c and the old
   value elsewhere. *)
C4_AugmentedAssignmentInPlace ==
    (last.op = "augassign" /\ IsArr(prev.env[last.dst])) =>
        LET c == env[last.dst]
            v == Map(last.arg, Contents(prev.heap, c))
        IN  /\ env = prev.env
            /\ WroteThrough(c, v)
            /\ \A n \in Names :
                  (IsArr(env[n]) /\ env[n].buf = c.buf) =>
                      \A i \in DOMAIN env[n].offs :
                          heap[c.buf][env[n].offs[i]]
                            = IF env[n].offs[i] \in Range(c.offs)
                              THEN Apply(last.arg, prev.heap[c.buf][env[n].offs[i]])
                              ELSE prev.heap[c.buf][env[n].offs[i]]

\* a is 3x4, b = a[0], c = a[0]; c *= -2: row 0 of a and b read 0 -2 -4 -6.
C4_Witness ==
    /\ last.op = "augassign"
    /\ last.dst = "c"
    /\ env["a"].shape = <<3, 4>>
    /\ env["c"].offs = <<1, 2, 3, 4>>
    /\ SharesMemory(env["a"], env["c"])
    /\ Contents(heap, env["b"]) = Times(<<0, -2, -4, -6>>)
    /\ Contents(heap, env["a"]) = Times(<<0, -2, -4, -6, 4, 5, 6, 7, 8, 9, 10, 11>>)

IsUfunc(op) == op.f \in {"exp", "log", "square"}

(* C5: np.f(a, out=a) stores f's result in the buffer of out, so that every
   view of it reads the new values; without out, np.f(a) returns an array in
   a buffer of its own and leaves every existing buffer as it was. *)
C5_OutStoresInPlace ==
    /\ last.op = "ufuncout" =>
          LET t == Target(prev.heap, prev.env[last.dst], last.idx)
              v == Map(last.arg, Contents(prev.heap, Operand))
          IN  /\ env = prev.env
              /\ WroteThrough(t, v)
              /\ \A n \in Names :
                    (IsArr(env[n]) /\ env[n].buf = t.buf /\ env[n].offs = t.offs) =>
                        Contents(heap, env[n]) = v
    /\ (last.op = "expr" /\ IsUfunc(last.arg) /\ IsArr(Operand)) =>
          /\ OldDataKept
          /\ Result.buf = Len(prev.heap) + 1
          /\ Contents(heap, Result) = Map(last.arg, Contents(prev.heap, Operand))
          /\ ~SharesMemory(Result, Operand)

\* a = np.array([0, 1, 2, 3, 4]); b = a[:]; np.exp(a, out=a): b reads e^a.
C5_Witness ==
    /\ last.op = "ufuncout"
    /\ last.dst = "a"
    /\ last.src = "a"
    /\ last.arg.f = "exp"
    /\ made["b"] = How("basic", env["a"].buf)
    /\ prev.heap[1] = Times(<<0, 1, 2, 3, 4>>)
    /\ Contents(heap, env["b"]) = <<10, 27, 73, 200, 545>>

(* C6: a = np.array(...) only changes what a refers to: every other name
   refers to the object it referred to, every buffer that existed holds what
   it held (so b, taken as a[:] before, reads the old data), and a shares
   memory with no other name. *)
C6_RebindingLeavesData ==
    last.op = "array" =>
        /\ \A n \in Names \ {last.dst} : env[n] = prev.env[n]
        /\ OldDataKept
        /\ Result.buf = Len(prev.heap) + 1
        /\ \A n \in Names \ {last.dst} : ~SharesMemory(Result, env[n])

\* a = np.array([0, 1, 2, 3, 4]); b = a[:]; a = np.array([0, -1, -2, -3, -4])
C6_Witness ==
    /\ last.op = "array"
    /\ last.dst = "a"
    /\ made["b"] = How("basic", 1)
    /\ SharesMemory(prev.env["a"], prev.env["b"])
    /\ ~SharesMemory(env["a"], env["b"])
    /\ Contents(heap, env["b"]) = Times(<<0, 1, 2, 3, 4>>)
    /\ Contents(heap, env["a"]) = Times(<<0, -1, -2, -3, -4>>)

(* C7: the value of x + k, x * k, ... for an array x is an array in a buffer
   of its own, sharing no memory with x; so dst = x * k binds dst to it and
   leaves every other name, and every buffer that existed, as it was. *)
C7_ArithmeticMakesNewArray ==
    (last.op = "expr" /\ ~IsUfunc(last.arg) /\ IsArr(Operand)) =>
        /\ Result.buf = Len(prev.heap) + 1
        /\ Result.shape = Operand.shape
        /\ Contents(heap, Result) = Map(last.arg, Contents(prev.heap, Operand))
        /\ ~SharesMemory(Result, Operand)
        /\ OldDataKept
        /\ \A n \in Names \ {last.dst} :
              /\ env[n] = prev.env[n]
              /\ ~SharesMemory(Result, env[n])

\* a is 3x4, b = a[0], c = a[0]; b = b * -1
C7_Witness ==
    /\ last.op = "expr"
    /\ last.dst = "b"
    /\ last.src = "b"
    /\ last.arg = Op("mul", -1 * Scale)
    /\ prev.env["b"] = env["c"]
    /\ SharesMemory(env["a"], env["c"])
    /\ ~SharesMemory(env["a"], env["b"])
    /\ Contents(heap, env["b"]) = Times(<<0, -1, -2, -3>>)
    /\ Contents(heap, env["c"]) = Times(<<0, 1, 2, 3>>)

(* C8: np.copy(x) returns an array with x's shape and elements, in a buffer
   of its own that no other name refers to; and in every later state the
   copy shares no memory with any array on the buffer it was copied from. *)
C8_CopyOwnsItsData ==
    /\ last.op = "copy" =>
          /\ Result.shape = Operand.shape
          /\ Contents(heap, Result) = Contents(prev.heap, Operand)
          /\ OldDataKept
          /\ ~SharesMemory(Result, Operand)
          /\ \A n \in Names \ {last.dst} : ~SharesMemory(Result, env[n])
    /\ \A n \in Names :
          made[n].how = "copy" =>
              \A m \in Names \ {n} :
                  (IsArr(env[m]) /\ env[m].buf = made[n].from) =>
                      ~SharesMemory(env[n], env[m])

\* b = a[:, 0]; c = np.copy(b); then b *= -2: c still reads column 0 as it
\* was, and shares memory with neither a nor b.
C8_Witness ==
    /\ made["c"] = How("copy", 1)
    /\ last.op = "augassign"
    /\ last.dst = "b"
    /\ env["b"].offs = <<1, 5, 9>>
    /\ heap[1] # prev.heap[1]
    /\ Contents(heap, env["c"]) = Times(<<0, 4, 8>>)
    /\ ~SharesMemory(env["c"], env["a"])
    /\ ~SharesMemory(env["c"], env["b"])

(* C9: a basic index with one integer for every dimension (z[0, 0]) returns
   a number: it holds the element's value, creates nothing, and shares memory
   with no array; a later write in place to any array leaves every name
   bound to a number as it was. *)
C9_ElementIsNoView ==
    /\ (/\ last.op = "getitem"
        /\ Len(last.idx) = Len(Operand.shape)
        /\ \A k \in DOMAIN last.idx : last.idx[k].t = "int") =>
          /\ Result.kind = "num"
          /\ Result.val = prev.heap[Operand.buf][ResOffs(Operand.shape, Operand.offs, last.idx)[1]]
          /\ heap = prev.heap
          /\ ~SharesMemory(Result, Operand)
          /\ \A n \in Names : ~SharesMemory(Result, env[n])
    /\ WroteInPlace =>
          \A n \in Names : prev.env[n].kind = "num" => env[n] = prev.env[n]

\* b = a[0, 0] is -5; then a *= -2 makes a[0, 0] 10 and leaves b at -5.
C9_Witness ==
    /\ env["b"] = Num(-5 * Scale)
    /\ made["b"] = How("basic", env["a"].buf)
    /\ last.op = "augassign"
    /\ last.dst = "a"
    /\ prev.heap[1][1] = -5 * Scale
    /\ heap[1][1] = 10 * Scale

\* The statements of the exercise, as the kernel records them.
Updating ==
    { Stmt("augassign", "x", "x", <<>>, Op("add", 3 * Scale)),
      Stmt("augassign", "y", "y", <<>>, Op("mul", 24)),
      Stmt("ufuncout", "x", "x", <<Slice(<<1>>, <<3>>, None)>>, Op("log", 0)),
      Stmt("setitem", "y", "", <<All>>, OpE("y", Op("add", 2 * Scale))),
      Stmt("setitem", "x", "", <<All>>, NumE(0)),
      Stmt("call", "y", "y", <<>>, Op("div", 3 * Scale)),
      Stmt("ufuncout", "y", "y", <<>>, Op("square", 0)) }

NotUpdating ==
    { Stmt("expr", "x", "x", <<>>, Op("add", 3 * Scale)),
      Stmt("copy;augassign", "y", "y", <<>>, Op("add", 3 * Scale)),
      Stmt("expr", "x", "x", <<>>, Op("square", 0)) }

(* C10: run first after the given cell (x 3x4, y = x[0, :]), each of
   x += 3, y *= 2.4, np.log(x[1:3], out=x[1:3]), y[:] = y + 2, x[:] = 0,
   f(y) with def f(z): z /= 3, and np.square(y, out=y) changes the data that
   x referred to, and binds no name to anything else; each of x = x + 3,
   (y = np.copy(y); y += 3) and x = np.square(x) leaves that data as it
   was. *)
C10_ExerciseAnswers ==
    steps = 1 =>
        LET d == prev.env["x"].buf
        IN  /\ last \in Updating \cup NotUpdating
            /\ last \in Updating => (heap[d] # prev.heap[d] /\ env = prev.env)
            /\ last \in NotUpdating => heap[d] = prev.heap[d]

\* f(y) after the given cell: row 0 of x reads 0, 1/3, 2/3, 1.
C10_Witness ==
    /\ steps = 1
    /\ last = Stmt("call", "y", "y", <<>>, Op("div", 3 * Scale))
    /\ prev.heap[1] = Grid
    /\ env["x"].buf = 1
    /\ Contents(heap, env["x"]) = <<0, 3, 6, 10>> \o SubSeq(Grid, 5, 12)

\* The variables the solution marks as views of x, and those it marks as not.
Marked == {"a1", "a3", "a6", "a7"}

NotMarked == {"a2", "a4", "a5", "a8"}

(* C11: given the 3x4 array x, each of a1 = x, a3 = x[:, 0],
   a6 = x[np.newaxis] and a7 = x.reshape(2, 3, 2) refers to the data x
   refers to: it shares memory with x, and an update in place of x or of
   the variable changes that data; each of a2 = x[0, 0],
   a4 = x[:, 0] + np.array([-1, -2, -3]), a5 = np.copy(x[:, 0]) and
   a8 = 2 + x does not: it shares no memory with x, an update in place of it
   leaves x's data as it was, and an update in place of x leaves its values
   as they were. *)
C11_ViewsExerciseAnswers ==
    LET d == env["x"].buf
    IN  /\ \A n \in Marked :
              env[n].kind # "unbound" =>
                  /\ IsArr(env[n])
                  /\ env[n].buf = d
                  /\ SharesMemory(env[n], env["x"])
                  /\ Range(env[n].offs) \subseteq Range(env["x"].offs)
        /\ \A n \in NotMarked :
              env[n].kind # "unbound" =>
                  /\ ~SharesMemory(env[n], env["x"])
                  /\ IsArr(env[n]) => env[n].buf # d
        /\ last.op = "augassign" =>
              /\ env = prev.env
              /\ last.dst \in Marked \cup {"x"} => heap[d] # prev.heap[d]
              /\ last.dst \in NotMarked => heap[d] = prev.heap[d]
              /\ \A n \in NotMarked :
                    (IsArr(env[n]) /\ n # last.dst) =>
                        Contents(heap, env[n]) = Contents(prev.heap, env[n])

\* a7 = x.reshape(2, 3, 2) and a4 = x[:, 0] + ... were run, and then a7 += 3:
\* x reads 3 .. 14, and a4 still reads -1, 2, 5.
C11_Witness ==
    /\ last = Stmt("augassign", "a7", "a7", <<>>, Op("add", 3 * Scale))
    /\ env["a7"].shape = <<2, 3, 2>>
    /\ Contents(heap, env["x"]) = Times(<<3, 4, 5, 6, 7, 8, 9, 10, 11, 12, 13, 14>>)
    /\ IsArr(env["a4"])
    /\ Contents(heap, env["a4"]) = Times(<<-1, 2, 5>>)

====
